---- MODULE Spec2Model ----
(***************************************************************************)
(* Model of create-pwa-boilerplate: the CLI entry point (index.ts, run)    *)
(* and the project generator (src/generator.ts, generateProject and        *)
(* processTemplate).                                                       *)
(*                                                                         *)
(* Text (file contents, configuration values, paths) is a sequence of      *)
(* lexemes: each lexeme is a run of characters that no pattern of the      *)
(* program splits ("<%=", " ", "pwa.name", "%>", ".ejs", "/", ...).         *)
(* String.prototype.replace, endsWith and path.join are computed on these  *)
(* sequences as JavaScript computes them on characters.                    *)
(***************************************************************************)
EXTENDS Integers, Sequences, FiniteSets, TLC

VARIABLES pc, config, fs, idx, err, log, exitCode, commands, firstRun

vars == <<pc, config, fs, idx, err, log, exitCode, commands, firstRun>>

(***************************************************************************)
(* Bounds of the model.                                                    *)
(***************************************************************************)
\* largest number of occurrences of one token or marker in a template text
MaxOcc == 2
\* largest number of blanks between a delimiter and the path of a token
MaxPad == 2

(***************************************************************************)
(* Text helpers.                                                           *)
(***************************************************************************)
IsPrefixAt(pat, s, i) ==
    /\ i + Len(pat) - 1 <= Len(s)
    /\ \A k \in 1..Len(pat) : s[i + k - 1] = pat[k]

StartsWith(s, pat) == IsPrefixAt(pat, s, 1)

EndsWith(s, pat) ==
    /\ Len(pat) <= Len(s)
    /\ IsPrefixAt(pat, s, Len(s) - Len(pat) + 1)

\* the first position >= i at which pat occurs in s; 0 when there is none
NextMatch(s, pat, i) ==
    LET hits == {j \in i..(Len(s) + 1) : IsPrefixAt(pat, s, j)}
    IN  IF hits = {} THEN 0 ELSE CHOOSE j \in hits : \A k \in hits : j <= k

RECURSIVE CountFrom(_, _, _)
CountFrom(s, pat, i) ==
    LET j == NextMatch(s, pat, i)
    IN  IF j = 0 THEN 0 ELSE 1 + CountFrom(s, pat, j + Len(pat))

\* String.prototype.indexOf, 1-based; 0 when pat does not occur in s
IndexOf(s, pat) == NextMatch(s, pat, 1)

\* number of non-overlapping occurrences of pat in s, scanning from the left
Count(s, pat) == CountFrom(s, pat, 1)

Occurs(s, pat) == IndexOf(s, pat) > 0

RECURSIVE Concat(_)
Concat(ss) == IF ss = <<>> THEN <<>> ELSE Head(ss) \o Concat(Tail(ss))

RECURSIVE Repeat(_, _)
Repeat(s, n) == IF n = 0 THEN <<>> ELSE s \o Repeat(s, n - 1)

(***************************************************************************)
(* String.prototype.replace.  The replacement is a string, so its "$"      *)
(* patterns are expanded (GetSubstitution): "$$" is a dollar sign, "$&"    *)
(* the matched text, "$`" the text before the match and "$'" the text      *)
(* after it.                                                               *)
(***************************************************************************)
RECURSIVE GetSubstitution(_, _, _, _)
GetSubstitution(repl, matched, before, after) ==
    IF repl = <<>> THEN <<>>
    ELSE LET h == Head(repl)
             x == IF h = "$$" THEN <<"$">>
                  ELSE IF h = "$&" THEN matched
                  ELSE IF h = "$`" THEN before
                  ELSE IF h = "$'" THEN after
                  ELSE <<h>>
         IN  x \o GetSubstitution(Tail(repl), matched, before, after)

RECURSIVE ReplaceAllFrom(_, _, _, _)
ReplaceAllFrom(s, pat, repl, i) ==
    LET j == NextMatch(s, pat, i)
    IN  IF j = 0 THEN SubSeq(s, i, Len(s))
        ELSE SubSeq(s, i, j - 1)
             \o GetSubstitution(repl, pat, SubSeq(s, 1, j - 1),
                                SubSeq(s, j + Len(pat), Len(s)))
             \o ReplaceAllFrom(s, pat, repl, j + Len(pat))

\* content.replace(/pat/g, repl): every match of the literal pattern
ReplaceAll(s, pat, repl) == ReplaceAllFrom(s, pat, repl, 1)

\* content.replace("pat", repl): a string pattern replaces the first match only
ReplaceFirst(s, pat, repl) ==
    LET i == IndexOf(s, pat)
    IN  IF i = 0 THEN s
        ELSE SubSeq(s, 1, i - 1)
             \o GetSubstitution(repl, pat, SubSeq(s, 1, i - 1),
                                SubSeq(s, i + Len(pat), Len(s)))
             \o SubSeq(s, i + Len(pat), Len(s))

(***************************************************************************)
(* Placeholder tokens and the marker registry.                             *)
(***************************************************************************)
Frontend == {"react", "vue", "svelte"}

\* the text "<%= path %>" with n blanks on each side of the path
PaddedToken(path, n) == <<"<%=">> \o Repeat(<<" ">>, n) \o <<path>> \o Repeat(<<" ">>, n) \o <<"%>">>

\* the token as the patterns of processTemplate spell it: one blank each side
Token(path) == PaddedToken(path, 1)

PwaPaths == {"pwa.name", "pwa.shortName", "pwa.themeColor", "pwa.backgroundColor", "pwa.displayMode"}

FieldPaths == PwaPaths \cup {"useTailwind"}

\* the comment-line marker "// identifier"
Marker(id) == <<"//", " ", id>>

\* templatePlaceholders: per framework, the (marker, snippet) pairs in key order
templatePlaceholders ==
    [f \in Frontend |->
        IF f = "react" THEN
            << <<Marker("tailwindCSSImportsPlaceholder"),
                 <<"@import", " ", "\"", "tailwindcss", "\"", ";">> >>,
               <<Marker("tailwindCSSPackagePlaceholder"),
                 <<"\"", "@tailwindcss/vite", "\"", ":", " ", "\"", "^4.1.16", "\"", ",", "\n",
                   " ", " ", " ", " ", "\"", "tailwindcss", "\"", ":", " ", "\"", "^4.1.16", ",">> >>,
               <<Marker("tailwindCSSViteConfig"),
                 <<"import", " ", "tailwindcss", " ", "from", " ", "'", "@tailwindcss/vite", "'">> >>,
               <<Marker("tailwindCSSFunctionViteConfig"),
                 <<"tailwindcss", "(),">> >> >>
        ELSE IF f = "vue" THEN
            << <<Marker("vuePlaceholder"), <<>> >> >>
        ELSE
            << <<Marker("sveltePlaceholder"), <<>> >> >>]

RegisteredMarkers(f) == {templatePlaceholders[f][i][1] : i \in DOMAIN templatePlaceholders[f]}

SnippetOf(f, m) ==
    LET i == CHOOSE j \in DOMAIN templatePlaceholders[f] : templatePlaceholders[f][j][1] = m
    IN  templatePlaceholders[f][i][2]

\* the string a configuration field renders as
FieldValue(cfg, path) ==
    IF path = "pwa.name" THEN cfg.pwa.name
    ELSE IF path = "pwa.shortName" THEN cfg.pwa.shortName
    ELSE IF path = "pwa.themeColor" THEN cfg.pwa.themeColor
    ELSE IF path = "pwa.backgroundColor" THEN cfg.pwa.backgroundColor
    ELSE IF path = "pwa.displayMode" THEN cfg.pwa.displayMode
    ELSE IF cfg.useTailwind THEN <<"true">> ELSE <<"false">>

(***************************************************************************)
(* processTemplate (src/generator.ts).                                     *)
(***************************************************************************)
\* step 1: the five pwa.* tokens, each replaced globally, in source order
ReplaceMetadata(content, cfg) ==
    LET r1 == ReplaceAll(content, Token("pwa.name"), cfg.pwa.name)
        r2 == ReplaceAll(r1, Token("pwa.shortName"), cfg.pwa.shortName)
        r3 == ReplaceAll(r2, Token("pwa.themeColor"), cfg.pwa.themeColor)
        r4 == ReplaceAll(r3, Token("pwa.backgroundColor"), cfg.pwa.backgroundColor)
    IN  ReplaceAll(r4, Token("pwa.displayMode"), cfg.pwa.displayMode)

\* step 2: the for-in loop over the framework's registry entries
RECURSIVE ReplacePlaceholders(_, _, _, _)
ReplacePlaceholders(result, entries, useTailwind, i) ==
    IF i > Len(entries) THEN result
    ELSE ReplacePlaceholders(
            ReplaceFirst(result, entries[i][1],
                         IF useTailwind THEN entries[i][2] ELSE <<>>),
            entries, useTailwind, i + 1)

\* processTemplate with a last pass that drops the opening delimiter of
\* whatever token is left over
processTemplateErasing(content, cfg) ==
    ReplaceAll(ReplacePlaceholders(ReplaceMetadata(content, cfg),
                                   templatePlaceholders[cfg.framework], cfg.useTailwind, 1),
               <<"<%=">>, <<>>)

\* processTemplate going through the react registry whatever the framework
processTemplateReactRegistry(content, cfg) ==
    ReplacePlaceholders(ReplaceMetadata(content, cfg),
                        templatePlaceholders["react"], cfg.useTailwind, 1)

processTemplate(content, cfg) ==
    ReplacePlaceholders(ReplaceMetadata(content, cfg),
                        templatePlaceholders[cfg.framework], cfg.useTailwind, 1)

\* the earlier draft of processTemplate (unnamed/part_000): no marker
\* registry, and the useTailwind token rendered as true / false
processTemplateDraft(content, cfg) ==
    ReplaceAll(ReplaceMetadata(content, cfg), Token("useTailwind"),
               IF cfg.useTailwind THEN <<"true">> ELSE <<"false">>)

(***************************************************************************)
(* The file system: a function from paths to nodes.  A path is a text      *)
(* whose segments are separated by the lexeme "/".                         *)
(***************************************************************************)
File(c) == [kind |-> "file", content |-> c]

Dir == [kind |-> "dir", content |-> <<>>]

\* path.join(a, b)
Join(a, b) == a \o <<"/">> \o b

\* p lies strictly inside directory d
Under(d, p) == StartsWith(p, d \o <<"/">>)

RECURSIVE LastSlash(_, _)
LastSlash(p, i) == IF i = 0 THEN 0 ELSE IF p[i] = "/" THEN i ELSE LastSlash(p, i - 1)

\* path.dirname(p)
Dirname(p) == SubSeq(p, 1, LastSlash(p, Len(p)) - 1)

\* fs.existsSync
Exists(f, p) == p \in DOMAIN f

IsDir(f, p) == p \in DOMAIN f /\ f[p].kind = "dir"

IsFile(f, p) == p \in DOMAIN f /\ f[p].kind = "file"

\* the name of the entry of directory d on the way to p
EntryName(d, p) ==
    LET rest == SubSeq(p, Len(d) + 2, Len(p))
        k == IndexOf(rest, <<"/">>)
    IN  IF k = 0 THEN rest ELSE SubSeq(rest, 1, k - 1)

\* fs.readdirSync(d): the names of the entries of d (files and directories)
Readdir(f, d) == {EntryName(d, p) : p \in {q \in DOMAIN f : Under(d, q)}}

\* fs.removeSync(p): p and everything below it; nothing when p is absent
RemoveTree(f, p) == [q \in {r \in DOMAIN f : r # p /\ ~Under(p, r)} |-> f[q]]

RECURSIVE RemoveAll(_, _)
RemoveAll(f, ps) ==
    IF ps = {} THEN f
    ELSE LET p == CHOOSE x \in ps : TRUE IN RemoveAll(RemoveTree(f, p), ps \ {p})

\* fs.writeFileSync(p, c) on an existing parent directory
WriteFile(f, p, c) == [q \in DOMAIN f \cup {p} |-> IF q = p THEN File(c) ELSE f[q]]

\* copySync taking the source away as a move would
CopyTreeMove(f, src, dst) ==
    LET srcs == {p \in DOMAIN f : p = src \/ Under(src, p)}
        To(p) == dst \o SubSeq(p, Len(src) + 1, Len(p))
        new == {To(p) : p \in srcs}
    IN  [q \in (DOMAIN f \ srcs) \cup new |->
            IF q \in new THEN f[CHOOSE p \in srcs : To(p) = q] ELSE f[q]]

\* fs.copySync(src, dst, {overwrite: true}): the tree below src is laid over dst
CopyTree(f, src, dst) ==
    LET srcs == {p \in DOMAIN f : p = src \/ Under(src, p)}
        To(p) == dst \o SubSeq(p, Len(src) + 1, Len(p))
        new == {To(p) : p \in srcs}
    IN  [q \in DOMAIN f \cup new |->
            IF q \in new THEN f[CHOOSE p \in srcs : To(p) = q] ELSE f[q]]

\* fs.renameSync(a, b): the entry a (with its subtree) replaces whatever b was
RenameTree(f, a, b) ==
    IF a = b \/ ~Exists(f, a) THEN f
    ELSE LET moved == {p \in DOMAIN f : p = a \/ Under(a, p)}
             To(p) == b \o SubSeq(p, Len(a) + 1, Len(p))
             rest == RemoveTree(RemoveTree(f, b), a)
             new == {To(p) : p \in moved}
         IN  [q \in DOMAIN rest \cup new |->
                IF q \in new THEN f[CHOOSE p \in moved : To(p) = q] ELSE rest[q]]

\* a file system from a set of <<path, node>> pairs
MkFs(pairs) == [p \in {x[1] : x \in pairs} |-> (CHOOSE x \in pairs : x[1] = p)[2]]

(***************************************************************************)
(* generateProject (src/generator.ts) and run (index.ts).                  *)
(***************************************************************************)
\* __dirname of the generator module
PkgDir == <<"/pkg">>

\* process.cwd()
Cwd == <<"/home">>

TemplatesRoot == Join(PkgDir, <<"templates">>)

TemplatePath(cfg) == Join(TemplatesRoot, <<cfg.framework>>)

DestinationPath(cfg) == Join(Cwd, cfg.projectName)

EjsExt == <<".ejs">>

TailwindTag == <<".tailwindcss">>

\* the suffix step 3 filters on
TailwindTsx == <<".tailwindcss", ".tsx">>

ComponentsRel == <<"src", "/", "components">>

filesToProcess ==
    << <<"package", ".json", ".ejs">>,
       <<"index", ".html", ".ejs">>,
       <<"public", "/", "manifest", ".json", ".ejs">>,
       <<"src", "/", "index", ".css", ".ejs">>,
       <<"vite", ".config", ".ts", ".ejs">> >>

FullPathEjs(cfg, i) == Join(DestinationPath(cfg), filesToProcess[i])

\* fullPathEjs.replace(".ejs", ""): the first ".ejs" of the whole path
TargetPath(cfg, i) == ReplaceFirst(FullPathEjs(cfg, i), EjsExt, <<>>)

ComponentsDir(cfg) == Join(DestinationPath(cfg), ComponentsRel)

NoConfig ==
    [projectName |-> <<>>, framework |-> "react", useTailwind |-> FALSE,
     pwa |-> [name |-> <<>>, shortName |-> <<>>, themeColor |-> <<>>,
              backgroundColor |-> <<>>, displayMode |-> <<>>, iconPath |-> <<>>]]

\* an exception leaves generateProject (or promptUser) and reaches run's catch
Throw(e) ==
    /\ pc' = "threw"
    /\ err' = e

\* the pass over filesToProcess left after its first item
AfterItemEarly(i) == "step3"

\* the position after the list item idx has been dealt with
AfterItem(i) == IF i = Len(filesToProcess) THEN "step3" ELSE "process"

\* step 1 making the destination directory before it looks at the source
CopyTemplateMkdirFirst ==
    /\ pc = "copy"
    /\ IF IsDir(fs, TemplatePath(config))
       THEN /\ fs' = CopyTree(fs, TemplatePath(config), DestinationPath(config))
            /\ log' = Append(log, "copied")
            /\ idx' = 1
            /\ pc' = "process"
            /\ err' = err
       ELSE /\ fs' = [q \in DOMAIN fs \cup {DestinationPath(config)} |->
                        IF q \in DOMAIN fs THEN fs[q] ELSE Dir]
            /\ Throw("ENOENT")
            /\ UNCHANGED <<log, idx>>
    /\ UNCHANGED <<config, exitCode, commands, firstRun>>

\* step 1: fs.copySync(templatePath, destinationPath, {overwrite: true})
CopyTemplate ==
    /\ pc = "copy"
    /\ IF IsDir(fs, TemplatePath(config))
       THEN /\ fs' = CopyTree(fs, TemplatePath(config), DestinationPath(config))
            /\ log' = Append(log, "copied")
            /\ idx' = 1
            /\ pc' = "process"
            /\ err' = err
       ELSE /\ Throw("ENOENT")
            /\ UNCHANGED <<fs, log, idx>>
    /\ UNCHANGED <<config, exitCode, commands, firstRun>>

\* step 1 failing in the file system (permissions, disk full): the
\* destination directory has been made, the tree has not been copied
CopyFails ==
    /\ pc = "copy"
    /\ IsDir(fs, TemplatePath(config))
    /\ fs' = [q \in DOMAIN fs \cup {DestinationPath(config)} |->
                IF q \in DOMAIN fs THEN fs[q] ELSE Dir]
    /\ Throw("EACCES")
    /\ UNCHANGED <<config, idx, log, exitCode, commands, firstRun>>

\* step 2, one item of filesToProcess: existsSync, readFileSync,
\* processTemplate, writeFileSync
ProcessFile ==
    /\ pc = "process"
    /\ LET full == FullPathEjs(config, idx)
           target == TargetPath(config, idx)
       IN  IF ~Exists(fs, full)
           THEN /\ idx' = idx + 1
                /\ pc' = AfterItem(idx)
                /\ UNCHANGED <<fs, err>>
           ELSE IF ~IsFile(fs, full)
           THEN /\ Throw("EISDIR")
                /\ UNCHANGED <<fs, idx>>
           ELSE IF ~IsDir(fs, Dirname(target))
           THEN /\ Throw("ENOENT")
                /\ UNCHANGED <<fs, idx>>
           ELSE IF IsDir(fs, target)
           THEN /\ Throw("EISDIR")
                /\ UNCHANGED <<fs, idx>>
           ELSE /\ fs' = WriteFile(fs, target, processTemplate(fs[full].content, config))
                /\ pc' = "remove"
                /\ UNCHANGED <<idx, err>>
    /\ UNCHANGED <<config, log, exitCode, commands, firstRun>>

\* step 2, same item: fs.removeSync(fullPathEjs)
RemoveEjs ==
    /\ pc = "remove"
    /\ fs' = RemoveTree(fs, FullPathEjs(config, idx))
    /\ idx' = idx + 1
    /\ pc' = AfterItem(idx)
    /\ UNCHANGED <<config, err, log, exitCode, commands, firstRun>>

\* step 3 taking a missing src/components for an empty one
ResolveVariantsLenient ==
    /\ pc = "step3"
    /\ LET dir == ComponentsDir(config)
           names == Readdir(fs, dir)
           filesToRemove ==
               IF ~config.useTailwind
               THEN {n \in names : EndsWith(n, TailwindTsx)}
               ELSE {n \in names : ~EndsWith(n, TailwindTsx)}
       IN  /\ fs' = RemoveAll(fs, {Join(dir, n) : n \in filesToRemove})
           /\ err' = err
           /\ IF config.useTailwind
              THEN /\ pc' = "rename"
                   /\ log' = log
              ELSE /\ pc' = "install"
                   /\ log' = Append(log, "injected")
    /\ UNCHANGED <<config, idx, exitCode, commands, firstRun>>

\* step 3, first half: readdirSync, filter, removeSync of each filtered name
ResolveVariants ==
    /\ pc = "step3"
    /\ LET dir == ComponentsDir(config)
           names == Readdir(fs, dir)
           filesToRemove ==
               IF ~config.useTailwind
               THEN {n \in names : EndsWith(n, TailwindTsx)}
               ELSE {n \in names : ~EndsWith(n, TailwindTsx)}
       IN  IF ~IsDir(fs, dir)
           THEN /\ Throw("ENOENT")
                /\ UNCHANGED <<fs, log>>
           ELSE /\ fs' = RemoveAll(fs, {Join(dir, n) : n \in filesToRemove})
                /\ err' = err
                /\ IF config.useTailwind
                   THEN /\ pc' = "rename"
                        /\ log' = log
                   ELSE /\ pc' = "install"
                        /\ log' = Append(log, "injected")
    /\ UNCHANGED <<config, idx, exitCode, commands, firstRun>>

\* the forEach of renameSync over one listing of the directory
RECURSIVE RenameEach(_, _, _)
RenameEach(f, dir, order) ==
    IF order = <<>> THEN f
    ELSE LET fileName == Head(order)
             newFileName == ReplaceFirst(fileName, TailwindTag, <<>>)
         IN  RenameEach(RenameTree(f, Join(dir, fileName), Join(dir, newFileName)),
                        dir, Tail(order))

\* the orders in which readdirSync may list a set of names
Listings(names) ==
    {o \in [1..Cardinality(names) -> names] : \A n \in names : \E i \in DOMAIN o : o[i] = n}

\* step 3, second half (useTailwind only): readdirSync again, rename each entry
RenameVariants ==
    /\ pc = "rename"
    /\ \E order \in Listings(Readdir(fs, ComponentsDir(config))) :
          fs' = RenameEach(fs, ComponentsDir(config), order)
    /\ log' = Append(log, "injected")
    /\ pc' = "install"
    /\ UNCHANGED <<config, idx, err, exitCode, commands, firstRun>>

\* runCommand(command, cwd): the line it logs; no process is started
runCommand(command, cwd) == [command |-> command, cwd |-> cwd]

\* step 4 executing the command, which throws when the tool is not there
RunInstallExec ==
    /\ pc = "install"
    /\ \/ /\ commands' = Append(commands, runCommand("pnpm install", DestinationPath(config)))
          /\ log' = Append(log, "install")
          /\ pc' = "returned"
          /\ err' = err
       \/ /\ commands' = Append(commands, runCommand("pnpm install", DestinationPath(config)))
          /\ log' = log
          /\ Throw("ENOENT")
    /\ UNCHANGED <<config, fs, idx, exitCode, firstRun>>

\* step 4: runCommand("pnpm install", destinationPath) only logs the command
RunInstall ==
    /\ pc = "install"
    /\ commands' = Append(commands, runCommand("pnpm install", DestinationPath(config)))
    /\ log' = Append(log, "install")
    /\ pc' = "returned"
    /\ UNCHANGED <<config, fs, idx, err, exitCode, firstRun>>

\* run: generateProject returned, the success lines are printed, the process ends
ReportSuccess ==
    /\ pc = "returned"
    /\ log' = Append(log, "complete")
    /\ exitCode' = 0
    /\ pc' = "exited"
    /\ UNCHANGED <<config, fs, idx, err, commands, firstRun>>

\* run's catch clearing the destination away before it reports
ReportErrorRollback ==
    /\ pc = "threw"
    /\ fs' = RemoveTree(fs, DestinationPath(config))
    /\ log' = Append(log, "error")
    /\ exitCode' = 0
    /\ pc' = "exited"
    /\ UNCHANGED <<config, idx, err, commands, firstRun>>

\* run: the catch block prints the diagnostic; nothing sets an exit code
ReportError ==
    /\ pc = "threw"
    /\ log' = Append(log, "error")
    /\ exitCode' = 0
    /\ pc' = "exited"
    /\ UNCHANGED <<config, fs, idx, err, commands, firstRun>>

(***************************************************************************)
(* The environment: template texts, the installed template trees, what     *)
(* the working directory already holds, and the operator's answers.        *)
(***************************************************************************)
Lines(a, b) == a \o <<"\n">> \o b

\* n copies of text t, one per line
RECURSIVE Occurrences(_, _)
Occurrences(t, n) == IF n = 1 THEN t ELSE Lines(t, Occurrences(t, n - 1))

\* the conditional token of the react component (PwaFeaturesGrid.tsx:99)
ConditionalToken == <<"<%=", " ", "useTailwind", " ", "?", " ", "'p-8'", " ", ":", " ", "''", " ", "%>">>

TestedPaths == {"pwa.name", "useTailwind"}

TestedMarkers == {Marker("tailwindCSSViteConfig"), Marker("vuePlaceholder"), Marker("sveltePlaceholder")}

\* the texts the entry page template is drawn from
Contents ==
    {Occurrences(<<"<title>">> \o Token(p) \o <<"</title>">>, n) : p \in TestedPaths, n \in 1..MaxOcc}
    \cup {PaddedToken("pwa.name", n) : n \in 0..MaxPad}
    \cup {Occurrences(m, n) : m \in TestedMarkers, n \in 1..MaxOcc}
    \cup {Marker("tailwindCSSViteConfig") \o <<"Extra">>,
          <<"foo();", " ">> \o Marker("tailwindCSSViteConfig"),
          Token("pwa.unknown"),
          ConditionalToken,
          Lines(Token("pwa.unknown"), Token("pwa.name"))}

ManifestText ==
    Concat(<< <<"{", "\"", "name", "\"", ":", " ", "\"">>, Token("pwa.name"), <<"\"", ",", "\n">>,
              <<"\"", "short_name", "\"", ":", " ", "\"">>, Token("pwa.shortName"), <<"\"", ",", "\n">>,
              <<"\"", "theme_color", "\"", ":", " ", "\"">>, Token("pwa.themeColor"), <<"\"", ",", "\n">>,
              <<"\"", "background_color", "\"", ":", " ", "\"">>, Token("pwa.backgroundColor"), <<"\"", ",", "\n">>,
              <<"\"", "display", "\"", ":", " ", "\"">>, Token("pwa.displayMode"), <<"\"", "}">> >>)

PackageText(f) ==
    <<"{", "\"", "vite", "\"", ":", " ", "\"", "^7", "\"", ",", "\n">>
    \o (IF f = "react" THEN Marker("tailwindCSSPackagePlaceholder") ELSE <<>>)
    \o <<"}">>

StyleText(f) ==
    (IF f = "react" THEN Lines(Marker("tailwindCSSImportsPlaceholder"), <<"body{}">>) ELSE <<"body{}">>)

ViteConfigText(f) ==
    IF f = "react"
    THEN Lines(Marker("tailwindCSSViteConfig"),
               <<"plugins:[">> \o Marker("tailwindCSSFunctionViteConfig") \o <<"]">>)
    ELSE <<"plugins:[]">>

\* contents of the two styling variants of a component
PlainText(f) == IF f = "react" THEN <<"plain:">> \o ConditionalToken ELSE <<"plain:", f>>

TailwindText(f) == <<"tailwind:", f>>

\* the files every template tree has outside src/components
CommonTree(f, c) ==
    { << <<>>, Dir >>,
      << <<"public">>, Dir >>,
      << <<"src">>, Dir >>,
      << filesToProcess[1], File(PackageText(f)) >>,
      << filesToProcess[2], File(c) >>,
      << filesToProcess[3], File(ManifestText) >>,
      << filesToProcess[5], File(ViteConfigText(f)) >> }

\* the template trees as shipped: the files under src/templates, and the
\* marker files of filesToProcess
ShippedTree(f, c) ==
    CommonTree(f, c) \cup
    (IF f = "react" THEN
        { << filesToProcess[4], File(StyleText(f)) >>,
          << ComponentsRel, Dir >>,
          << Join(ComponentsRel, <<"PwaFeaturesGrid", ".tsx">>), File(PlainText(f)) >>,
          << Join(ComponentsRel, <<"PwaFeaturesGrid", ".tailwindcss", ".tsx">>), File(TailwindText(f)) >>,
          << <<"src", "/", "sw", ".js">>, File(<<"sw">>) >> }
     ELSE IF f = "svelte" THEN
        { << <<"src", "/", "app", ".css">>, File(StyleText(f)) >>,
          << ComponentsRel, Dir >>,
          << Join(ComponentsRel, <<"PwaFeaturesGrid", ".svelte">>), File(PlainText(f)) >>,
          << Join(ComponentsRel, <<"PwaFeaturesGrid", ".tailwindcss", ".svelte">>), File(TailwindText(f)) >>,
          << <<"src", "/", "main", ".ts">>, File(<<"mount">>) >> }
     ELSE
        { << <<"src", "/", "style", ".css">>, File(StyleText(f)) >>,
          << <<"src", "/", "main", ".ts">>, File(<<"createApp">>) >>,
          << <<"src", "/", "vue-shims", ".d", ".ts">>, File(<<"declare">>) >> })

ComponentExt(f) == IF f = "react" THEN ".tsx" ELSE IF f = "vue" THEN ".vue" ELSE ".svelte"

\* another template tree: a marker file outside filesToProcess, no build
\* configuration, and a component directory with more than the grid
CustomTree(f, c) ==
    (CommonTree(f, c) \ {<< filesToProcess[5], File(ViteConfigText(f)) >>}) \cup
    { << <<"src", "/", "app", ".css", ".ejs">>, File(StyleText(f)) >>,
      << ComponentsRel, Dir >>,
      << Join(ComponentsRel, <<"PwaFeaturesGrid", ComponentExt(f)>>), File(PlainText(f)) >>,
      << Join(ComponentsRel, <<"PwaFeaturesGrid", ".tailwindcss", ComponentExt(f)>>), File(TailwindText(f)) >>,
      << Join(ComponentsRel, <<"Badge", ".tailwindcss", ".tsx">>), File(<<"badge">>) >>,
      << Join(ComponentsRel, <<"Badge", ".tailwindcss", ".tailwindcss", ".tsx">>), File(<<"badge2">>) >>,
      << Join(ComponentsRel, <<"hooks">>), Dir >>,
      << Join(ComponentsRel, <<"hooks", "/", "useLog", ".ts">>), File(<<"hook">>) >> }

\* a tree put at a root
Mount(root, tree) == {<< IF x[1] = <<>> THEN root ELSE Join(root, x[1]), x[2] >> : x \in tree}

TemplateRootOf(f) == Join(TemplatesRoot, <<f>>)

\* the installed package: which template trees lie under __dirname/templates
Package(variant, c) ==
    { << PkgDir, Dir >>, << TemplatesRoot, Dir >> } \cup
    (IF variant = "shipped"
     THEN UNION {Mount(TemplateRootOf(f), ShippedTree(f, c)) : f \in Frontend}
     ELSE IF variant = "custom"
     THEN UNION {Mount(TemplateRootOf(f), CustomTree(f, c)) : f \in Frontend}
     ELSE Mount(TemplateRootOf("react"), CustomTree("react", c)))

Variants == {"shipped", "custom", "partial"}

ProjectNames == { <<"demo1">>, <<"my", ".ejs", "-app">> }

\* what the working directory holds before the run
\* an earlier project directory: files of the operator's own, one of them in
\* src/components, and a build configuration still in its marker form
OldProject ==
    Mount(Join(Cwd, <<"demo1">>),
          { << <<>>, Dir >>,
            << <<"notes", ".txt">>, File(<<"mine">>) >>,
            << <<"src">>, Dir >>,
            << ComponentsRel, Dir >>,
            << Join(ComponentsRel, <<"keep", ".txt">>), File(<<"kept">>) >>,
            << filesToProcess[5], File(<<"mine:">> \o Token("pwa.shortName")) >> })

PreExisting ==
    { {},
      OldProject,
      { << Join(Cwd, <<"my", "-app">>), Dir >> } }

NameValues ==
    { <<"Demo">>, <<"$&">>, Token("pwa.shortName"), Marker("tailwindCSSImportsPlaceholder") }

Configs ==
    [projectName : ProjectNames, framework : Frontend, useTailwind : BOOLEAN,
     pwa : [name : NameValues, shortName : {<<"PWA">>}, themeColor : {<<"#317EFB">>},
            backgroundColor : {<<"#FFFFFF">>}, displayMode : {<<"standalone">>},
            iconPath : {<<"icons/pwa-icon-512.png">>}]]

\* no run of generateProject is behind
NoRun == <<>>

Init ==
    /\ pc = "prompt"
    /\ config = NoConfig
    /\ \E variant \in Variants, c \in Contents, pre \in PreExisting :
          fs = MkFs({<< Cwd, Dir >>} \cup Package(variant, c) \cup pre)
    /\ idx = 0
    /\ err = "none"
    /\ log = <<>>
    /\ exitCode = -1
    /\ commands = <<>>
    /\ firstRun = NoRun

\* promptUser: the answers, the project name validated against existsSync
PromptUser ==
    /\ pc = "prompt"
    /\ \E cfg \in Configs :
          /\ ~Exists(fs, Join(Cwd, cfg.projectName))
          /\ config' = cfg
    /\ log' = Append(log, "starting")
    /\ pc' = "copy"
    /\ UNCHANGED <<fs, idx, err, exitCode, commands, firstRun>>

\* promptUser in its simplified form (index.ts:118): the answers are cast to
\* the configuration, the project name is not validated
PromptUserSimplified ==
    /\ pc = "prompt"
    /\ \E cfg \in Configs : config' = cfg
    /\ log' = Append(log, "starting")
    /\ pc' = "copy"
    /\ UNCHANGED <<fs, idx, err, exitCode, commands, firstRun>>

\* promptUser rejecting (the prompt is closed or interrupted)
PromptFails ==
    /\ pc = "prompt"
    /\ Throw("prompt")
    /\ UNCHANGED <<config, fs, idx, log, exitCode, commands, firstRun>>

Next ==
    \/ PromptUser
    \/ PromptUserSimplified
    \/ PromptFails
    \/ CopyTemplate
    \/ CopyFails
    \/ ProcessFile
    \/ RemoveEjs
    \/ ResolveVariants
    \/ RenameVariants
    \/ RunInstall
    \/ ReportSuccess
    \/ ReportError

Spec == Init /\ [][Next]_vars

\* the directory root of the file system f and what is under it
TreeAt(f, root) == [p \in {q \in DOMAIN f : q = root \/ Under(root, q)} |-> f[p]]

\* the destination directory and what is under it
DestinationTree == TreeAt(fs, DestinationPath(config))

\* generateProject(config) called once more after it has returned, with the
\* same configuration; the destination as the first call left it is kept
GenerateAgain ==
    /\ pc = "returned"
    /\ firstRun = NoRun
    /\ firstRun' = DestinationTree
    /\ pc' = "copy"
    /\ idx' = 0
    /\ UNCHANGED <<config, fs, err, log, exitCode, commands>>

NextTwice == Next \/ GenerateAgain

SpecTwice == Init /\ [][NextTwice]_vars

TypeOK ==
    /\ pc \in {"prompt", "copy", "process", "remove", "step3", "rename", "install",
               "returned", "threw", "exited"}
    /\ idx \in 0..(Len(filesToProcess) + 1)
    /\ exitCode \in {-1, 0}
    /\ \A p \in DOMAIN fs : fs[p].kind \in {"file", "dir"}

(***************************************************************************)
(* Vocabulary of the properties.                                           *)
(***************************************************************************)
\* generateProject has returned normally
Completed == pc = "returned" \/ (pc = "exited" /\ err = "none")

\* step 3 of generateProject is over
Step3Done == pc = "install" \/ Completed

\* generateProject raised an error (promptUser's own rejection is not one)
GeneratorFailed == pc \in {"threw", "exited"} /\ err \notin {"none", "prompt"}

\* the template trees under __dirname/templates are the shipped ones
ShippedPackage ==
    {p \in DOMAIN fs : Under(TemplatesRoot, p)}
        = UNION {{x[1] : x \in Mount(TemplateRootOf(f), ShippedTree(f, <<>>))} : f \in Frontend}

\* names in the template's and in the destination's src/components
TemplateComponents == Readdir(fs, Join(TemplatePath(config), ComponentsRel))

DestComponents == Readdir(fs, ComponentsDir(config))

HasTag(n) == Occurs(n, TailwindTag)

StripTag(n) == ReplaceFirst(n, TailwindTag, <<>>)

\* item i of filesToProcess has been read, transformed and written
Processed(i) ==
    /\ pc \notin {"prompt", "copy"}
    /\ idx > i \/ (idx = i /\ pc = "remove")
    /\ IsFile(fs, Join(TemplatePath(config), filesToProcess[i]))
    /\ IsFile(fs, TargetPath(config, i))

\* the text processTemplate was given for item i, and the text it produced
InputOf(i) == fs[Join(TemplatePath(config), filesToProcess[i])].content

OutputOf(i) == fs[TargetPath(config, i)].content

Items == DOMAIN filesToProcess

\* the configuration's values are plain text: no "$" pattern of
\* String.prototype.replace, no token and no marker inside a value
PlainValues ==
    \A path \in PwaPaths : \A k \in DOMAIN FieldValue(config, path) :
        FieldValue(config, path)[k] \notin {"$$", "$&", "$`", "$'", "<%=", "//"}

\* the project name does not itself contain the marker extension
PlainProjectName == ~Occurs(config.projectName, EjsExt)

(***************************************************************************)
(* Claims.                                                                 *)
(***************************************************************************)

\* C1: on the shipped template trees, after step 3 no name in the destination's src/components carries the
\* tailwind tag, and the names are the tag-stripped names of the template's
\* component directory, which do not depend on useTailwind.
C1_NoTaggedNames ==
    (ShippedPackage /\ Step3Done) =>
        /\ \A n \in DestComponents : ~HasTag(n)
        /\ DestComponents = {StripTag(n) : n \in TemplateComponents}

\* C2: when generateProject has completed successfully, no path under the
\* destination ends with the marker extension ".ejs".
C2_NoMarkerFileSurvives ==
    Completed =>
        \A p \in DOMAIN fs : Under(DestinationPath(config), p) => ~EndsWith(p, EjsExt)

\* C3: with plain configuration values already, in the output of
\* processTemplate no interpolation token that was in
\* the input remains, and the field value occurs once more for every
\* occurrence of its token in the input.
C3_TokensSubstituted ==
    \A i \in Items : (PlainValues /\ Processed(i)) =>
        \A path \in FieldPaths :
            Occurs(InputOf(i), Token(path)) =>
                /\ Count(OutputOf(i), Token(path)) = 0
                /\ Count(OutputOf(i), FieldValue(config, path))
                      = Count(InputOf(i), Token(path)) + Count(InputOf(i), FieldValue(config, path))

\* C4: with plain configuration values already, in the output of
\* processTemplate no marker registered for the
\* framework remains, however often it occurred, and with useTailwind every
\* occurrence has become the registered snippet.
C4_MarkersReplaced ==
    \A i \in Items : (PlainValues /\ Processed(i)) =>
        \A m \in RegisteredMarkers(config.framework) :
            /\ Count(OutputOf(i), m) = 0
            /\ (config.useTailwind /\ SnippetOf(config.framework, m) # <<>>) =>
                  Count(OutputOf(i), SnippetOf(config.framework, m)) >= Count(InputOf(i), m)

\* C5: with plain configuration values already, every
\* "<%= useTailwind %>" of a processed file has become the word
\* true (useTailwind) or false (otherwise).
C5_UseTailwindRendered ==
    \A i \in Items : (PlainValues /\ Processed(i)) =>
        LET word == IF config.useTailwind THEN <<"true">> ELSE <<"false">>
        IN  /\ Count(OutputOf(i), Token("useTailwind")) = 0
            /\ Count(OutputOf(i), word)
                  = Count(InputOf(i), Token("useTailwind")) + Count(InputOf(i), word)

\* C6: with plain configuration values already, a token written with no blank or with several blanks around its path
\* is substituted like the one-blank form: it does not remain in the output.
C6_WhitespaceInsensitive ==
    \A i \in Items : (PlainValues /\ Processed(i)) =>
        \A path \in FieldPaths, n \in (0..MaxPad) \ {1} :
            Occurs(InputOf(i), PaddedToken(path, n)) =>
                ~Occurs(OutputOf(i), PaddedToken(path, n))

\* the tagged names of the template's component directory whose stripped
\* name is there too
DualVariants == {n \in TemplateComponents : HasTag(n) /\ StripTag(n) \in TemplateComponents}

TemplateComponent(n) == fs[Join(Join(TemplatePath(config), ComponentsRel), n)]

\* C7: on the shipped template trees, after step 3, of each dual-variant component exactly the stripped
\* name is left; it holds the tagged variant's content with useTailwind and
\* the plain variant's content without.
C7_OneVariantSurvives ==
    (ShippedPackage /\ Step3Done) =>
        \A t \in DualVariants :
            /\ t \notin DestComponents
            /\ StripTag(t) \in DestComponents
            /\ fs[Join(ComponentsDir(config), StripTag(t))]
                  = TemplateComponent(IF config.useTailwind THEN t ELSE StripTag(t))

\* C8: a project generated from the shipped template trees has a
\* PwaFeaturesGrid component in src/components.
C8_GridIncluded ==
    (ShippedPackage /\ Completed) => \E n \in DestComponents : Head(n) = "PwaFeaturesGrid"

\* C9: on the shipped template trees, for a project name without ".ejs"
\* already, generateProject raises no error of its own (a failing file
\* system aside): it reaches the install trigger.
C9_ShippedTemplatesGenerate ==
    (ShippedPackage /\ PlainProjectName) => ~(GeneratorFailed /\ err # "EACCES")

\* C10: the exit status is zero after a successful generation and non-zero,
\* with the diagnostic and without the success message, after generateProject
\* raised an error.
C10_ExitStatus ==
    pc = "exited" =>
        /\ (err = "none" => exitCode = 0)
        /\ (GeneratorFailed =>
                /\ exitCode # 0
                /\ \E k \in DOMAIN log : log[k] = "error"
                /\ \A k \in DOMAIN log : log[k] # "complete")

\* the path p, which lies under the directory d, relative to d
RelTo(d, p) == SubSeq(p, Len(d) + 2, Len(p))

\* p lies under the destination and is neither the image of a template path
\* nor a processable path nor the stripped path of one
Unrelated(p) ==
    /\ Under(DestinationPath(config), p)
    /\ ~Exists(fs, Join(TemplatePath(config), RelTo(DestinationPath(config), p)))
    /\ \A i \in Items : p \notin {FullPathEjs(config, i), TargetPath(config, i)}

\* C11: no step of a run changes or removes an entry that was in the
\* destination before the run and corresponds to no template path and to no
\* processable path.
C11_PreExistingUntouched ==
    [][pc # "prompt" =>
          \A x \in OldProject :
              (x[1] \in DOMAIN fs /\ fs[x[1]] = x[2] /\ Unrelated(x[1])) =>
                  (x[1] \in DOMAIN fs' /\ fs'[x[1]] = x[2])]_vars

\* C12 as stated: when generateProject starts with the destination already
\* there or with the framework's template subtree missing, it throws and the
\* file system is as it was.
C12_AbortsBeforeAnyWrite ==
    [][(pc = "copy" /\ (Exists(fs, DestinationPath(config))
                          \/ ~IsDir(fs, TemplatePath(config)))) =>
          (pc' = "threw" /\ fs' = fs)]_vars

\* C12 amended: when generateProject starts with the framework's template
\* subtree missing, it throws and the file system is as it was, and nothing
\* is written once it has thrown.
C12_MissingTemplateAborts ==
    [][/\ (pc = "copy" /\ ~IsDir(fs, TemplatePath(config))) =>
              (pc' = "threw" /\ err' = "ENOENT" /\ fs' = fs)
       /\ pc \in {"threw", "exited"} => fs' = fs]_vars

\* generateProject has thrown at step 1 for want of the template subtree
C12_Aborted ==
    /\ pc = "threw"
    /\ err = "ENOENT"
    /\ idx = 0
    /\ ~IsDir(fs, TemplatePath(config))
    /\ ~Exists(fs, DestinationPath(config))

\* C13: once step 3 has been entered with no src/components directory in
\* the destination, generateProject has thrown: no install command was
\* issued and neither the install line nor the success banner was printed.
C13_MissingComponentsIsFatal ==
    (pc \notin {"prompt", "copy", "step3"} /\ idx = Len(filesToProcess) + 1
        /\ ~IsDir(fs, ComponentsDir(config))) =>
        /\ pc \in {"threw", "exited"}
        /\ err = "ENOENT"
        /\ commands = <<>>
        /\ \A k \in DOMAIN log : log[k] \notin {"injected", "install", "complete"}

\* the run has ended on the error of step 3, every list item behind it
C13_FailedAtStep3 ==
    /\ pc = "exited"
    /\ err = "ENOENT"
    /\ idx = Len(filesToProcess) + 1
    /\ Exists(fs, DestinationPath(config))
    /\ ~IsDir(fs, ComponentsDir(config))
    /\ commands = <<>>

\* the path of list item i under the destination without its last extension
StrippedPath(cfg, i) ==
    Join(DestinationPath(cfg), SubSeq(filesToProcess[i], 1, Len(filesToProcess[i]) - 1))

\* the template lacks some path of filesToProcess
SomeListedPathMissing ==
    \E j \in Items : ~Exists(fs, Join(TemplatePath(config), filesToProcess[j]))

\* C14: in a run whose template lacks a listed path, a list item that is not
\* in the destination is passed over (no error, nothing written), and a list
\* item that is there is transformed and written to its stripped path.
C14_AbsentItemSkipped ==
    [][(pc = "process" /\ SomeListedPathMissing) =>
          IF ~Exists(fs, FullPathEjs(config, idx))
          THEN pc' # "threw" /\ fs' = fs /\ idx' = idx + 1
          ELSE IsFile(fs, FullPathEjs(config, idx)) =>
                  (pc' = "remove" /\ IsFile(fs', StrippedPath(config, idx)))]_vars

\* C15: every list item of the template that step 2 has dealt with is a
\* file at its own path less the trailing ".ejs", and the ".ejs" original is
\* gone once its removal is behind.
C15_TargetIsStrippedPath ==
    \A i \in Items :
        (/\ pc \notin {"prompt", "copy"}
         /\ idx >= i
         /\ ~(idx = i /\ pc = "process")
         /\ IsFile(fs, Join(TemplatePath(config), filesToProcess[i]))) =>
            /\ IsFile(fs, StrippedPath(config, i))
            /\ idx > i => ~Exists(fs, FullPathEjs(config, i))

\* the line l has been printed
Logged(l) == \E k \in DOMAIN log : log[k] = l

\* C16: the steps run in order. Outside step 1 the file system changes only
\* after the copy is over; an entry of the destination's src/components goes
\* away only in step 3, with every list item behind; the install command is
\* issued only after step 3; and the text written for a list item is
\* processTemplate of the destination's copy of it.
C16_StepsInOrder ==
    [][/\ (fs' # fs /\ pc \notin {"copy", "prompt"}) => Logged("copied")
       /\ pc \in {"process", "remove", "step3", "rename", "install"} => Logged("copied")
       /\ (pc # "prompt" /\ \E q \in DOMAIN fs :
               Under(ComponentsDir(config), q) /\ q \notin DOMAIN fs') =>
              (pc \in {"step3", "rename"} /\ idx = Len(filesToProcess) + 1)
       /\ commands' # commands =>
              (pc = "install" /\ idx = Len(filesToProcess) + 1 /\ Logged("injected"))
       /\ (pc = "process" /\ pc' = "remove") =>
              /\ Under(DestinationPath(config), FullPathEjs(config, idx))
              /\ fs'[TargetPath(config, idx)].content
                    = processTemplate(fs[FullPathEjs(config, idx)].content, config)]_vars

\* a tailwind run is through all four steps: list items transformed, a
\* variant removed in step 3, the install command issued
C16_AllStepsDone ==
    /\ pc = "returned"
    /\ config.useTailwind
    /\ Processed(1) /\ Processed(3)
    /\ Cardinality(DestComponents) < Cardinality(TemplateComponents)
    /\ Len(commands) = 1

\* C17: from the end of step 3 generateProject issues the install command
\* once, for the destination directory, and returns without an error, the
\* file system untouched; no command is issued after that.
C17_InstallTriggeredOnce ==
    [][/\ pc = "install" =>
              /\ pc' = "returned"
              /\ err' = "none"
              /\ commands' = <<runCommand("pnpm install", DestinationPath(config))>>
              /\ fs' = fs
       /\ pc \in {"returned", "exited", "threw"} => commands' = commands]_vars

\* the run has ended well with the one install command on record
C17_Installed ==
    /\ pc = "exited"
    /\ err = "none"
    /\ Logged("complete")
    /\ commands = <<runCommand("pnpm install", DestinationPath(config))>>

\* tokens whose path is not one of the five recognised ones
UnknownTokens == {Token("pwa.unknown"), ConditionalToken}

\* C18: every occurrence of a token with an unrecognised path in the input
\* of processTemplate is in its output.
C18_UnknownTokensKept ==
    \A i \in Items : Processed(i) =>
        \A u \in UnknownTokens : Count(OutputOf(i), u) >= Count(InputOf(i), u)

\* a file with an unknown token next to a recognised one has been processed:
\* the recognised one is gone, the unknown one is there
C18_UnknownTokenProcessed ==
    \E i \in Items :
        /\ Processed(i)
        /\ PlainValues
        /\ Occurs(InputOf(i), Token("pwa.unknown"))
        /\ Occurs(InputOf(i), Token("pwa.name"))
        /\ ~Occurs(OutputOf(i), Token("pwa.name"))
        /\ Occurs(OutputOf(i), Token("pwa.unknown"))

\* the markers registered for another framework and not for f
ForeignMarkers(f) ==
    UNION {RegisteredMarkers(g) : g \in Frontend \ {f}} \ RegisteredMarkers(f)

\* C19: every occurrence of a marker registered only under another
\* framework in the input of processTemplate is in its output.
C19_ForeignMarkersKept ==
    \A i \in Items : Processed(i) =>
        \A m \in ForeignMarkers(config.framework) :
            Count(OutputOf(i), m) >= Count(InputOf(i), m)

\* a file with a marker of another framework's registry has been processed
C19_ForeignMarkerProcessed ==
    \E i \in Items :
        /\ Processed(i)
        /\ \E m \in ForeignMarkers(config.framework) :
              Occurs(InputOf(i), m) /\ Occurs(OutputOf(i), m)

\* a comment line that starts like the marker m and goes on
LongerLine(m) == m \o <<"Extra">>

\* C20: with plain configuration values, a line that only contains a
\* registered marker as a part of a longer comment is in the output of
\* processTemplate as it was in the input.
C20_WholeLineOnly ==
    \A i \in Items : (PlainValues /\ Processed(i)) =>
        \A m \in RegisteredMarkers(config.framework) :
            Count(OutputOf(i), LongerLine(m)) >= Count(InputOf(i), LongerLine(m))

\* C21: no step of a run changes the configuration or anything under the
\* package's templates directory.
C21_TemplateAndConfigKept ==
    [][pc # "prompt" =>
          /\ config' = config
          /\ TreeAt(fs', TemplatesRoot) = TreeAt(fs, TemplatesRoot)]_vars

\* a tailwind run has gone through all its steps and the template of the
\* framework still has the marker file the run has processed
C21_RunOverTemplateThere ==
    /\ pc = "exited"
    /\ err = "none"
    /\ config.useTailwind
    /\ Processed(1)
    /\ IsDir(fs, Join(TemplatePath(config), ComponentsRel))
    /\ ~Occurs(OutputOf(1), Token("pwa.name"))

\* the relative path rel is one of the fixed list or lies in src/components
ListedOrComponent(rel) ==
    \/ \E i \in Items : rel = filesToProcess[i]
    \/ rel = ComponentsRel
    \/ Under(ComponentsRel, rel)

\* in the file system f every template file outside the list and outside
\* src/components has its copy, with the same content, in the destination
CopiedVerbatim(f) ==
    \A p \in DOMAIN f :
        (Under(TemplatePath(config), p) /\ f[p].kind = "file"
            /\ ~ListedOrComponent(RelTo(TemplatePath(config), p))) =>
            LET q == Join(DestinationPath(config), RelTo(TemplatePath(config), p))
            IN  q \in DOMAIN f /\ f[q] = f[p]

\* the paths at which the file systems f and g differ
ChangedPaths(f, g) ==
    {q \in DOMAIN f \cup DOMAIN g : q \notin DOMAIN f \/ q \notin DOMAIN g \/ f[q] # g[q]}

\* C22: from the copy on, every template file outside the fixed list and
\* outside src/components is in the destination with the template's content,
\* and a step of the substitution pass changes only marker files of the list
\* and their stripped targets.
C22_OthersVerbatim ==
    [][/\ pc' \notin {"prompt", "copy"} /\ idx' >= 1 => CopiedVerbatim(fs')
       /\ pc \in {"process", "remove"} =>
              \A q \in ChangedPaths(fs, fs') :
                  \E i \in Items : q \in {FullPathEjs(config, i), StrippedPath(config, i)}]_vars

\* the value of pwa.name is the text of another token or of a marker
NestedValue ==
    config.pwa.name \in {Token("pwa.shortName"), Marker("tailwindCSSImportsPlaceholder")}

\* C23: when the value of pwa.name is itself the text of another token or
\* of a registered marker, it stands in the output of processTemplate once
\* for every "<%= pwa.name %>" of the input.
C23_NoSubstitutionInsideValues ==
    \A i \in Items : (Processed(i) /\ NestedValue) =>
        Count(OutputOf(i), config.pwa.name) >= Count(InputOf(i), Token("pwa.name"))

\* the value v holds a "$" pattern of String.prototype.replace
HasDollarPattern(v) == \E k \in DOMAIN v : v[k] \in {"$$", "$&", "$`", "$'"}

\* C24: a value of pwa.name that holds a "$" pattern stands in the output of
\* processTemplate, as it is, once for every "<%= pwa.name %>" of the
\* input; and with useTailwind a registered snippet stands there for a
\* marker of the input.
C24_ValuesInsertedExactly ==
    \A i \in Items : (Processed(i) /\ ~NestedValue) =>
        /\ HasDollarPattern(config.pwa.name) =>
              Count(OutputOf(i), config.pwa.name) >= Count(InputOf(i), Token("pwa.name"))
        /\ \A m \in RegisteredMarkers(config.framework) :
              (config.useTailwind /\ Occurs(InputOf(i), m)) =>
                  Occurs(OutputOf(i), SnippetOf(config.framework, m))

\* C25: the call of step 2 or step 3 that throws changes nothing, and
\* nothing is put back after it: what the copy and the steps before the
\* failure have made of the destination is what the run leaves behind.
C25_NoRollback ==
    [][/\ (pc' = "threw" /\ pc \in {"process", "remove", "step3", "rename"}) => fs' = fs
       /\ (pc = "threw" /\ idx >= 1) =>
              /\ pc' = "exited"
              /\ fs' = fs
              /\ IsDir(fs', DestinationPath(config))
              /\ CopiedVerbatim(fs')]_vars

\* the run has ended on an error of step 3 with the first list item
\* written and its marker file removed
C25_LeftPartial ==
    /\ pc = "exited"
    /\ GeneratorFailed
    /\ idx = Len(filesToProcess) + 1
    /\ IsFile(fs, StrippedPath(config, 1))
    /\ ~Exists(fs, FullPathEjs(config, 1))
    /\ IsFile(fs, Join(TemplatePath(config), filesToProcess[1]))

C27_RenamesKeepEveryFile ==
    [][pc = "rename" =>
          LET before == Readdir(fs, ComponentsDir(config))
              after == Readdir(fs', ComponentsDir(config))
          IN  /\ Cardinality(after) = Cardinality({n \in before : HasTag(n)})
              /\ after = {StripTag(n) : n \in before}]_vars

\* C28: from the copy on, of every list item the template has, the marker
\* file or the stripped target is in the destination.
C28_MarkerOrTargetThere ==
    \A i \in Items :
        (/\ pc \notin {"prompt", "copy"}
         /\ idx >= 1
         /\ IsFile(fs, Join(TemplatePath(config), filesToProcess[i]))) =>
            Exists(fs, FullPathEjs(config, i)) \/ Exists(fs, StrippedPath(config, i))

\* the text t has an even number of double quotes
Balanced(t) == Count(t, <<"\"">>) % 2 = 0

\* C29: with useTailwind and plain configuration values, a processed file
\* whose double quotes were balanced in the template has them balanced after
\* processTemplate.
C29_QuotesStayBalanced ==
    \A i \in Items :
        (Processed(i) /\ PlainValues /\ config.useTailwind /\ Balanced(InputOf(i))) =>
            Balanced(OutputOf(i))

====
